---------------------------- MODULE Spec2Model ----------------------------
(***************************************************************************)
(* A model of mofloc (src/src/mofloc/base.py): the Flow class with its     *)
(* registries, the sweep loop of Flow._execute / Flow._process_events and  *)
(* the trampoline execute().                                               *)
(*                                                                         *)
(* The user's callables (entry points, pre/post actions, event sources,    *)
(* handlers, exception cleanups, termination actions) are the environment: *)
(* every invocation nondeterministically returns or raises.  A callable    *)
(* that returns may first have called discard_events() on the running flow.*)
(*                                                                         *)
(* Sequences are 1-indexed: the source the documentation calls "source i   *)
(* (0-indexed)" is position i+1 of event_sources here.                     *)
(***************************************************************************)
EXTENDS Integers, Sequences, FiniteSets, TLC

(* ------------------------------ bounds --------------------------------- *)
MaxSources == 2
MaxHandlers == 2
MaxPre == 1
MaxTerm == 2
MaxRegs == 2

(* --------------------------- value universes --------------------------- *)
FlowIds == {"A", "B"}
Names == {"go", "start"}
Fns == {"f1", "f2"}
ArgLists == {<<>>, <<"x">>}
KwArgs == {"none"}
Values == {"None", "done"}
Events == {"ev1", "ev2"}
ErrTypes == {"ValueError", "KeyError", "TypeError"}
Cleanups == {"c1", "c2"}

Range(q) == {q[k] : k \in DOMAIN q}

(* The exceptions of base.py, lines 251-299, and two ordinary error types. *)
ChangeFlow(new_flow, entry_point_, args_, kwargs_) ==
    [type |-> "ChangeFlow", new_flow |-> new_flow, entry_point |-> entry_point_,
     args |-> args_, kwargs |-> kwargs_]
EndFlow(return_value) == [type |-> "EndFlow", return_value |-> return_value]
NoEvent == [type |-> "NoEvent"]
MissingEntryPoint == [type |-> "MissingEntryPoint"]
ValueError == [type |-> "ValueError"]
Error(t) == [type |-> t]
NoExc == [type |-> "none"]

ChangeFlows == {ChangeFlow(f, n, a, k) : f \in FlowIds, n \in Names,
                                         a \in ArgLists, k \in KwArgs}
EndFlows == {EndFlow(v) : v \in Values}
Errors == {Error(t) : t \in ErrTypes}
Control == {"ChangeFlow", "EndFlow"}

(* What a user callable may raise. *)
Raisable == ChangeFlows \cup EndFlows \cup Errors \cup {NoEvent}

(* isinstance(e, typetuple): every exception class derives from Exception. *)
IsInstance(exc, typetuple) ==
    \E k \in DOMAIN typetuple : typetuple[k] = exc.type \/ typetuple[k] = "Exception"

(* Outcomes of one invocation of a user callable. *)
Return(discard, value) == [kind |-> "return", discard |-> discard, value |-> value]
Raise(exc) == [kind |-> "raise", exc |-> exc]
Raises == {Raise(x) : x \in Raisable}
(* entry points, pre-actions, post-actions: may call discard_events() *)
ActionOutcomes == {Return(d, "None") : d \in BOOLEAN} \cup Raises
(* termination actions, cleanups, source.discard_events() *)
HookOutcomes == {Return(FALSE, "None")} \cup Raises
(* handlers return a truth value *)
HandlerOutcomes == {Return(d, b) : d \in BOOLEAN, b \in BOOLEAN} \cup Raises
(* source.get_event() returns an event or raises (NoEvent among others) *)
SourceOutcomes == {Return(FALSE, ev) : ev \in Events} \cup Raises

(* ------------------------------ the Flow ------------------------------- *)
(* Flow.__init__ *)
EmptyFlow ==
    [entry_points |-> <<>>, event_sources |-> <<>>, event_handlers |-> <<>>,
     preactions |-> <<>>, postactions |-> <<>>, on_exception |-> <<>>,
     on_termination |-> <<>>, discard_events_flag |-> FALSE]

(* A dict as a function; d[k] = v inserts or overwrites. *)
DictSet(d, k, v) == [x \in (DOMAIN d) \cup {k} |-> IF x = k THEN v ELSE d[x]]
DictDel(d, k) == [x \in (DOMAIN d) \ {k} |-> d[x]]

(* register_entry_point that overwrites a name it has *)
register_entry_point_Overwrites(F, name, method) ==
    [flow |-> [F EXCEPT !.entry_points = DictSet(@, name, method)], raised |-> NoExc]

(* Flow.register_entry_point: [flow, raised] *)
register_entry_point(F, name, method) ==
    IF name \in DOMAIN F.entry_points
    THEN [flow |-> F, raised |-> ValueError]
    ELSE [flow |-> [F EXCEPT !.entry_points = DictSet(@, name, method)],
          raised |-> NoExc]

(* Flow.redefine_entry_point *)
redefine_entry_point(F, name, method) ==
    [flow |-> [F EXCEPT !.entry_points = DictSet(@, name, method)], raised |-> NoExc]

(* Flow.delete_entry_point *)
delete_entry_point(F, name) ==
    [flow |-> [F EXCEPT !.entry_points = DictDel(@, name)], raised |-> NoExc]

(* The position of key in the insertion-ordered dict q, 0 when absent. *)
KeyPos(q, key) ==
    IF \E k \in DOMAIN q : q[k].types = key
    THEN CHOOSE k \in DOMAIN q : q[k].types = key
    ELSE 0

(* register_exception_action on a list instead of a dict *)
register_exception_action_Appends(F, exception_or_tuple, action) ==
    [flow |-> [F EXCEPT !.on_exception =
                 Append(@, [types |-> exception_or_tuple, cleanup |-> action])],
     raised |-> NoExc]

(* Flow.register_exception_action: a dict keeps the position of a key it has *)
register_exception_action(F, exception_or_tuple, action) ==
    LET q == F.on_exception
        p == KeyPos(q, exception_or_tuple)
        item == [types |-> exception_or_tuple, cleanup |-> action]
    IN [flow |-> [F EXCEPT !.on_exception =
                     IF p = 0 THEN Append(q, item) ELSE [q EXCEPT ![p] = item]],
        raised |-> NoExc]

(* Flow._execute, lines 57-59: the items of the table whose cleanup is     *)
(* called for exc, in the order of the loop.                               *)
CleanupsFor(F, exc) ==
    SelectSeq(F.on_exception, LAMBDA item : IsInstance(exc, item.types))

(* The deques hold the callables; a callable is named by its registration number. *)
register_termination_action(F) ==
    [flow |-> [F EXCEPT !.on_termination = Append(@, Len(@) + 1)], raised |-> NoExc]
register_event_source(F) ==
    [flow |-> [F EXCEPT !.event_sources = Append(@, Len(@) + 1)], raised |-> NoExc]
register_event_handler(F) ==
    [flow |-> [F EXCEPT !.event_handlers = Append(@, Len(@) + 1)], raised |-> NoExc]
register_preevent_action(F) ==
    [flow |-> [F EXCEPT !.preactions = Append(@, Len(@) + 1)], raised |-> NoExc]
register_postevent_action(F, must_have_event) ==
    [flow |-> [F EXCEPT !.postactions =
                 Append(@, [action |-> Len(@) + 1, must_have_event |-> must_have_event])],
     raised |-> NoExc]

(* Flow.discard_events *)
discard_events(F) == [F EXCEPT !.discard_events_flag = TRUE]


(* ------------------------------- state --------------------------------- *)
VARIABLES
    flows,            \* the Flow objects: FlowIds -> record of registries
    pc,               \* where the program is
    flow, entry_point, args, kwargs,   \* execute(): the current triple
    result,           \* what execute() returned
    did_entry_point, i, e, has_events, \* Flow._execute locals (e: exception in flight)
    processed, s, event,               \* Flow._process_events locals
    res, h,                            \* Flow.process_event locals
    log,              \* history: the calls made in the current sweep, or since a raise
    raised,           \* history: the exception the sweep code raised in this run
    caught,           \* history: the exception execute() caught last
    flagged           \* history: the discard flag was set when the run of the flow
                      \* began and has not been cleared since

vars == <<flows, pc, flow, entry_point, args, kwargs, result, did_entry_point, i, e,
          has_events, processed, s, event, res, h, log, raised, caught, flagged>>

engineVars == <<flow, entry_point, args, kwargs, result, caught, flagged>>
tripleVars == <<flow, entry_point, args, kwargs, result, caught>>
procVars == <<processed, s, event, res, h>>

Self == flows[flow]

(* A log entry: callable number idx of the running flow was called with arg; *)
(* discard: a handler or a post-action called discard_events(); value: a     *)
(* handler returned true; n: how many handlers an event was given to.        *)
Rec(op, idx, arg) ==
    [op |-> op, idx |-> idx, arg |-> arg, flow |-> flow, discard |-> FALSE,
     value |-> FALSE, n |-> 0]

(* The entry of a user callable that returned o. *)
Called(op, idx, arg, o) ==
    IF op = "handle"
    THEN [Rec(op, idx, arg) EXCEPT !.discard = o.discard, !.value = o.value]
    ELSE IF op = "post"
    THEN [Rec(op, idx, arg) EXCEPT !.discard = o.discard]
    ELSE Rec(op, idx, arg)

(* The flow objects after a user callable returned. *)
AfterCall(o) ==
    IF o.discard THEN [flows EXCEPT ![flow] = discard_events(@)] ELSE flows

(* The log with the handler calls of the event just dispatched left out,   *)
(* and one entry that sums them up in their place: whether one of them     *)
(* called discard_events() and, of a dispatch that came to its end,        *)
(* whether one returned true and how many there were.                      *)
IsHandle(r) == r.op = "handle"
Summary(lg, op, idx) ==
    SelectSeq(lg, LAMBDA r : ~IsHandle(r))
      \o <<[Rec(op, idx, "") EXCEPT
             !.discard = (\E k \in DOMAIN lg : IsHandle(lg[k]) /\ lg[k].discard),
             !.value = (op = "dispatched"
                          /\ \E k \in DOMAIN lg : IsHandle(lg[k]) /\ lg[k].value),
             !.n = IF op = "dispatched" THEN Len(SelectSeq(lg, IsHandle)) ELSE 0]>>

ProcDefaults ==
    /\ processed' = FALSE /\ s' = 0 /\ event' = "" /\ res' = FALSE /\ h' = 0

(* The registries a flow is given before it runs (what the register_*      *)
(* operations can build).                                                  *)
Ids(n) == [k \in 1..n |-> k]
EntryRegs == {<<>>, ("go" :> "f1"), ("start" :> "f2")}
PostReg == <<[action |-> 1, must_have_event |-> FALSE],
             [action |-> 2, must_have_event |-> TRUE]>>
ExcReg == <<[types |-> <<"ValueError">>, cleanup |-> "c1"],
            [types |-> <<"ValueError", "KeyError">>, cleanup |-> "c2"]>>
ExcAll == <<[types |-> <<"Exception">>, cleanup |-> "c1"]>>
Configured ==
    [entry_points : EntryRegs,
     event_sources : {Ids(MaxSources)},
     event_handlers : {Ids(MaxHandlers)},
     preactions : {Ids(MaxPre)},
     postactions : {PostReg},
     on_exception : {ExcReg, ExcAll},
     on_termination : {Ids(MaxTerm)},
     discard_events_flag : {FALSE}]

Idle ==
    /\ pc = "idle"
    /\ flow = "A" /\ entry_point = "go" /\ args = <<>> /\ kwargs = "none"
    /\ result = "None"
    /\ did_entry_point = FALSE /\ i = 0 /\ e = NoExc /\ has_events = FALSE
    /\ processed = FALSE /\ s = 0 /\ event = "" /\ res = FALSE /\ h = 0
    /\ log = <<>> /\ raised = NoExc /\ caught = NoExc /\ flagged = FALSE

(* Flow A has an entry point, flow B has one or none; A has cleanups for   *)
(* two kinds of error, B one for every exception.                          *)
Init ==
    /\ flows \in [FlowIds -> Configured]
    /\ flows["A"].entry_points = ("go" :> "f1")
    /\ flows["B"].entry_points # ("go" :> "f1")
    /\ flows["A"].on_exception = ExcReg
    /\ flows["B"].on_exception = ExcAll
    /\ Idle

(* ----------------------------- execute() ------------------------------- *)
(* execute(flow, entry_point, *args, **kwargs) is called: line 304 *)
Execute(f, ep, a, k) ==
    /\ pc = "idle"
    /\ flow' = f /\ entry_point' = ep /\ args' = a /\ kwargs' = k
    /\ flagged' = flows[f].discard_events_flag
    /\ pc' = "call"
    /\ UNCHANGED <<flows, result, did_entry_point, i, e, has_events, procVars,
                   log, raised, caught>>

(* _execute whose first except clause names EndFlow alone *)
Except_EndFlowOnly(exc, by) ==
    /\ e' = exc
    /\ raised' = exc
    /\ i' = 1
    /\ pc' = IF exc.type = "EndFlow" THEN "term" ELSE "cleanup"
    /\ log' = <<Rec("raise", 0, by)>>
    /\ did_entry_point' = FALSE /\ has_events' = FALSE
    /\ ProcDefaults
    /\ UNCHANGED <<flows, engineVars>>

(* _execute whose clause for BaseException comes first and takes all *)
Except_BaseExceptionFirst(exc, by) ==
    /\ e' = exc
    /\ raised' = exc
    /\ i' = 1
    /\ pc' = "cleanup"
    /\ log' = <<Rec("raise", 0, by)>>
    /\ did_entry_point' = FALSE /\ has_events' = FALSE
    /\ ProcDefaults
    /\ UNCHANGED <<flows, engineVars>>

(* The except clauses of Flow._execute: lines 53 and 56 *)
Except(exc, by) ==
    /\ e' = exc
    /\ raised' = exc
    /\ i' = 1
    /\ pc' = IF exc.type \in Control THEN "term" ELSE "cleanup"
    /\ log' = <<Rec("raise", 0, by)>>
    /\ did_entry_point' = FALSE /\ has_events' = FALSE
    /\ ProcDefaults
    /\ UNCHANGED <<flows, engineVars>>

(* An exception leaves Flow._execute for execute(). *)
Propagate(exc, lg) ==
    /\ e' = exc
    /\ pc' = "caught"
    /\ log' = lg
    /\ i' = 0
    /\ did_entry_point' = FALSE /\ has_events' = FALSE
    /\ ProcDefaults
    /\ UNCHANGED <<flows, engineVars, raised>>

(* _execute that begins a run with the discard flag cleared *)
ExecuteBegin_ResetsFlag ==
    /\ pc = "call"
    /\ flows' = [flows EXCEPT ![flow].discard_events_flag = FALSE]
    /\ IF DOMAIN Self.entry_points # {}
       THEN IF entry_point \notin DOMAIN Self.entry_points
            THEN /\ e' = MissingEntryPoint
                 /\ pc' = "caught"
                 /\ i' = 0
                 /\ did_entry_point' = FALSE /\ has_events' = FALSE
                 /\ ProcDefaults
                 /\ UNCHANGED <<engineVars, log, raised>>
            ELSE /\ did_entry_point' = FALSE
                 /\ pc' = "try"
                 /\ UNCHANGED <<engineVars, i, e, has_events, procVars, log, raised>>
       ELSE /\ did_entry_point' = TRUE
            /\ pc' = "try"
            /\ UNCHANGED <<engineVars, i, e, has_events, procVars, log, raised>>

(* _execute that takes an unknown entry point for nothing to do *)
ExecuteBegin_SkipsMissing ==
    /\ pc = "call"
    /\ did_entry_point' = (entry_point \notin DOMAIN Self.entry_points)
    /\ pc' = "try"
    /\ UNCHANGED <<flows, engineVars, i, e, has_events, procVars, log, raised>>

(* _execute that looks the entry point up in an empty registry too *)
ExecuteBegin_EmptyRaises ==
    /\ pc = "call"
    /\ IF entry_point \notin DOMAIN Self.entry_points
       THEN Propagate(MissingEntryPoint, log)
       ELSE /\ did_entry_point' = FALSE
            /\ pc' = "try"
            /\ UNCHANGED <<flows, engineVars, i, e, has_events, procVars, log, raised>>

(* Flow._execute, lines 35-40: the registry check before the loop *)
ExecuteBegin ==
    /\ pc = "call"
    /\ IF DOMAIN Self.entry_points # {}
       THEN IF entry_point \notin DOMAIN Self.entry_points
            THEN Propagate(MissingEntryPoint, log)
            ELSE /\ did_entry_point' = FALSE
                 /\ pc' = "try"
                 /\ UNCHANGED <<flows, engineVars, i, e, has_events, procVars, log, raised>>
       ELSE /\ did_entry_point' = TRUE
            /\ pc' = "try"
            /\ UNCHANGED <<flows, engineVars, i, e, has_events, procVars, log, raised>>

(* _execute that forgets that the entry point was called *)
EntryPoint_EverySweep ==
    /\ pc = "try"
    /\ IF ~did_entry_point
       THEN \E o \in ActionOutcomes :
              IF o.kind = "raise"
              THEN Except(o.exc, "entry")
              ELSE /\ flows' = AfterCall(o)
                   /\ log' = <<Called("entry", 0, Self.entry_points[entry_point], o)>>
                   /\ pc' = "pre" /\ i' = 1
                   /\ UNCHANGED <<engineVars, did_entry_point, e, has_events,
                                  procVars, raised>>
       ELSE /\ log' = <<>>
            /\ pc' = "pre" /\ i' = 1
            /\ UNCHANGED <<flows, engineVars, did_entry_point, e, has_events,
                           procVars, raised>>

(* Flow._execute, lines 41-45: the top of the loop, the entry point once *)
EntryPoint ==
    /\ pc = "try"
    /\ IF ~did_entry_point
       THEN \E o \in ActionOutcomes :
              IF o.kind = "raise"
              THEN Except(o.exc, "entry")
              ELSE /\ did_entry_point' = TRUE
                   /\ flows' = AfterCall(o)
                   /\ log' = <<Called("entry", 0, Self.entry_points[entry_point], o)>>
                   /\ pc' = "pre" /\ i' = 1
                   /\ UNCHANGED <<engineVars, e, has_events, procVars, raised>>
       ELSE /\ log' = <<>>
            /\ pc' = "pre" /\ i' = 1
            /\ UNCHANGED <<flows, engineVars, did_entry_point, e, has_events,
                           procVars, raised>>

(* Flow._execute, lines 46-47: the pre-actions *)
PreAction ==
    /\ pc = "pre"
    /\ i <= Len(Self.preactions)
    /\ \E o \in ActionOutcomes :
         IF o.kind = "raise"
         THEN Except(o.exc, "pre")
         ELSE /\ flows' = AfterCall(o)
              /\ log' = Append(log, Called("pre", Self.preactions[i], "", o))
              /\ i' = i + 1
              /\ UNCHANGED <<engineVars, pc, did_entry_point, e, has_events,
                             procVars, raised>>

(* Flow._process_events, line 197: called at line 48 *)
ProcessEventsBegin ==
    /\ pc = "pre"
    /\ i > Len(Self.preactions)
    /\ processed' = FALSE
    /\ s' = 1
    /\ pc' = "poll"
    /\ i' = 0
    /\ UNCHANGED <<flows, engineVars, did_entry_point, e, has_events, event, res, h,
                   log, raised>>

(* _process_events without the except clause for NoEvent *)
Poll_NoEventEscapes ==
    /\ pc = "poll"
    /\ s <= Len(Self.event_sources)
    /\ \E o \in SourceOutcomes :
         IF o.kind = "raise"
         THEN Except(o.exc, "poll")
         ELSE /\ event' = o.value
              /\ log' = log \o <<Rec("poll", Self.event_sources[s], "event")>>
              /\ res' = FALSE
              /\ h' = 1
              /\ pc' = "dispatch"
              /\ UNCHANGED <<flows, engineVars, did_entry_point, i, e, has_events,
                             processed, s, raised>>

(* _process_events that tests the discard flag after a NoEvent as well *)
Poll_FlagStopsOnNoEvent ==
    /\ pc = "poll"
    /\ s <= Len(Self.event_sources)
    /\ \E o \in SourceOutcomes :
         IF o.kind = "raise"
         THEN IF o.exc = NoEvent
              THEN /\ IF Self.discard_events_flag
                      THEN pc' = "discard" /\ s' = s
                      ELSE pc' = pc /\ s' = s + 1
                   /\ log' = log \o <<Rec("poll", Self.event_sources[s], "NoEvent")>>
                   /\ UNCHANGED <<flows, engineVars, did_entry_point, i, e,
                                  has_events, processed, event, res, h, raised>>
              ELSE Except(o.exc, "poll")
         ELSE /\ event' = o.value
              /\ log' = log \o <<Rec("poll", Self.event_sources[s], "event")>>
              /\ res' = FALSE
              /\ h' = 1
              /\ pc' = "dispatch"
              /\ UNCHANGED <<flows, engineVars, did_entry_point, i, e, has_events,
                             processed, s, raised>>

(* Flow._process_events, lines 198-200 and 205-206: poll the next source *)
Poll ==
    /\ pc = "poll"
    /\ s <= Len(Self.event_sources)
    /\ \E o \in SourceOutcomes :
         IF o.kind = "raise"
         THEN IF o.exc = NoEvent
              THEN /\ s' = s + 1
                   /\ log' = log \o <<Rec("poll", Self.event_sources[s], "NoEvent")>>
                   /\ UNCHANGED <<flows, engineVars, pc, did_entry_point, i, e,
                                  has_events, processed, event, res, h, raised>>
              ELSE Except(o.exc, "poll")
         ELSE /\ event' = o.value
              /\ log' = log \o <<Rec("poll", Self.event_sources[s], "event")>>
              /\ res' = FALSE
              /\ h' = 1
              /\ pc' = "dispatch"
              /\ UNCHANGED <<flows, engineVars, did_entry_point, i, e, has_events,
                             processed, s, raised>>

(* process_event that stops at the first handler that returns true *)
process_event_FirstMatch ==
    /\ pc = "dispatch"
    /\ h <= Len(Self.event_handlers)
    /\ \E o \in HandlerOutcomes :
         IF o.kind = "raise"
         THEN IF o.exc = NoEvent
              THEN /\ s' = s + 1
                   /\ pc' = "poll"
                   /\ event' = "" /\ res' = FALSE /\ h' = 0
                   /\ log' = Summary(log \o <<Rec("handle", Self.event_handlers[h], event)>>,
                                    "aborted", Self.event_sources[s])
                   /\ UNCHANGED <<flows, engineVars, did_entry_point, i, e, has_events,
                                  processed, raised>>
              ELSE Except(o.exc, "handle")
         ELSE /\ res' = (res \/ o.value)
              /\ h' = IF o.value THEN Len(Self.event_handlers) + 1 ELSE h + 1
              /\ flows' = AfterCall(o)
              /\ log' = Append(log, Called("handle", Self.event_handlers[h], event, o))
              /\ UNCHANGED <<engineVars, pc, did_entry_point, i, e, has_events,
                             processed, s, event, raised>>

(* _process_events whose try covers get_event() alone *)
process_event_NoEventEscapes ==
    /\ pc = "dispatch"
    /\ h <= Len(Self.event_handlers)
    /\ \E o \in HandlerOutcomes :
         IF o.kind = "raise"
         THEN Except(o.exc, "handle")
         ELSE /\ res' = (res \/ o.value)
              /\ h' = h + 1
              /\ flows' = AfterCall(o)
              /\ log' = Append(log, Called("handle", Self.event_handlers[h], event, o))
              /\ UNCHANGED <<engineVars, pc, did_entry_point, i, e, has_events,
                             processed, s, event, raised>>

(* Flow.process_event, lines 122-125: the next handler gets the event *)
process_event ==
    /\ pc = "dispatch"
    /\ h <= Len(Self.event_handlers)
    /\ \E o \in HandlerOutcomes :
         IF o.kind = "raise"
         THEN IF o.exc = NoEvent
              THEN \* caught at line 205: lines 202-204 are skipped
                   /\ s' = s + 1
                   /\ pc' = "poll"
                   /\ event' = "" /\ res' = FALSE /\ h' = 0
                   /\ log' = Summary(log \o <<Rec("handle", Self.event_handlers[h], event)>>,
                                    "aborted", Self.event_sources[s])
                   /\ UNCHANGED <<flows, engineVars, did_entry_point, i, e, has_events,
                                  processed, raised>>
              ELSE Except(o.exc, "handle")
         ELSE /\ res' = (res \/ o.value)
              /\ h' = h + 1
              /\ flows' = AfterCall(o)
              /\ log' = Append(log, Called("handle", Self.event_handlers[h], event, o))
              /\ UNCHANGED <<engineVars, pc, did_entry_point, i, e, has_events,
                             processed, s, event, raised>>

(* _process_events that polls on when the discard flag is set *)
Dispatched_NoBreak ==
    /\ pc = "dispatch"
    /\ h > Len(Self.event_handlers)
    /\ processed' = (processed \/ res)
    /\ pc' = "poll" /\ s' = s + 1
    /\ event' = "" /\ res' = FALSE /\ h' = 0
    /\ log' = Summary(log, "dispatched", Self.event_sources[s])
    /\ UNCHANGED <<flows, engineVars, did_entry_point, i, e, has_events, raised>>

(* Flow.process_event line 126, Flow._process_events lines 201-204 *)
Dispatched ==
    /\ pc = "dispatch"
    /\ h > Len(Self.event_handlers)
    /\ processed' = (processed \/ res)
    /\ IF Self.discard_events_flag
       THEN pc' = "discard" /\ s' = s
       ELSE pc' = "poll" /\ s' = s + 1
    /\ event' = "" /\ res' = FALSE /\ h' = 0
    /\ log' = Summary(log, "dispatched", Self.event_sources[s])
    /\ UNCHANGED <<flows, engineVars, did_entry_point, i, e, has_events, raised>>

(* Flow._process_events: the source loop is over, line 207 *)
PollDone ==
    /\ pc = "poll"
    /\ s > Len(Self.event_sources)
    /\ pc' = "discard"
    /\ UNCHANGED <<flows, engineVars, did_entry_point, i, e, has_events, procVars,
                   log, raised>>

(* _process_events that tells the sources to discard in every sweep *)
DiscardCheck_Always ==
    /\ pc = "discard"
    /\ flows' = [flows EXCEPT ![flow].discard_events_flag = FALSE]
    /\ flagged' = FALSE
    /\ pc' = "discarding"
    /\ i' = 1
    /\ UNCHANGED <<tripleVars, did_entry_point, e, has_events, procVars, log, raised>>

(* Flow._process_events, lines 207-208 and 211 *)
DiscardCheck ==
    /\ pc = "discard"
    /\ IF Self.discard_events_flag
       THEN /\ flows' = [flows EXCEPT ![flow].discard_events_flag = FALSE]
            /\ flagged' = FALSE
            /\ pc' = "discarding"
            /\ i' = 1
            /\ UNCHANGED <<tripleVars, did_entry_point, e, has_events, procVars,
                           log, raised>>
       ELSE /\ has_events' = processed
            /\ pc' = "post"
            /\ i' = 1
            /\ ProcDefaults
            /\ UNCHANGED <<flows, engineVars, did_entry_point, e, log, raised>>

(* Flow._process_events, lines 209-210: source.discard_events() *)
SourceDiscard ==
    /\ pc = "discarding"
    /\ i <= Len(Self.event_sources)
    /\ \E o \in HookOutcomes :
         IF o.kind = "raise"
         THEN Except(o.exc, "source_discard")
         ELSE /\ log' = log \o <<Rec("source_discard", Self.event_sources[i], "")>>
              /\ i' = i + 1
              /\ UNCHANGED <<flows, engineVars, pc, did_entry_point, e, has_events,
                             procVars, raised>>

(* Flow._process_events, line 211 after the discard loop *)
DiscardDone ==
    /\ pc = "discarding"
    /\ i > Len(Self.event_sources)
    /\ has_events' = processed
    /\ pc' = "post"
    /\ i' = 1
    /\ ProcDefaults
    /\ UNCHANGED <<flows, engineVars, did_entry_point, e, log, raised>>

(* post-actions run whatever must_have_event says *)
PostAction_NoGate ==
    /\ pc = "post"
    /\ i <= Len(Self.postactions)
    /\ \E o \in ActionOutcomes :
         IF o.kind = "raise"
         THEN Except(o.exc, "post")
         ELSE /\ flows' = AfterCall(o)
              /\ log' = Append(log, Called("post", Self.postactions[i].action, "", o))
              /\ i' = i + 1
              /\ UNCHANGED <<engineVars, pc, did_entry_point, e, has_events,
                             procVars, raised>>

(* Flow._execute, lines 49-52: the post-actions and their gate *)
PostAction ==
    /\ pc = "post"
    /\ i <= Len(Self.postactions)
    /\ IF ~has_events /\ Self.postactions[i].must_have_event
       THEN /\ i' = i + 1
            /\ UNCHANGED <<flows, engineVars, pc, did_entry_point, e, has_events,
                           procVars, log, raised>>
       ELSE \E o \in ActionOutcomes :
              IF o.kind = "raise"
              THEN Except(o.exc, "post")
              ELSE /\ flows' = AfterCall(o)
                   /\ log' = Append(log, Called("post", Self.postactions[i].action, "", o))
                   /\ i' = i + 1
                   /\ UNCHANGED <<engineVars, pc, did_entry_point, e, has_events,
                                  procVars, raised>>

(* Flow._execute, line 41: the sweep is over, the loop goes round *)
SweepDone ==
    /\ pc = "post"
    /\ i > Len(Self.postactions)
    /\ pc' = "try"
    /\ i' = 0
    /\ has_events' = FALSE
    /\ UNCHANGED <<flows, engineVars, did_entry_point, e, procVars, log, raised>>

(* run_termination_actions that stops after the first action *)
run_termination_actions_FirstOnly ==
    /\ pc = "term"
    /\ i <= Len(Self.on_termination)
    /\ \E o \in HookOutcomes :
         IF o.kind = "raise"
         THEN Propagate(o.exc, log \o <<Rec("term", Self.on_termination[i], ""),
                                        Rec("raise", 0, "term")>>)
         ELSE /\ log' = log \o <<Rec("term", Self.on_termination[i], "")>>
              /\ i' = Len(Self.on_termination) + 1
              /\ UNCHANGED <<flows, engineVars, pc, did_entry_point, e, has_events,
                             procVars, raised>>

(* Flow.run_termination_actions, lines 115-116, called at line 54 *)
run_termination_actions ==
    /\ pc = "term"
    /\ i <= Len(Self.on_termination)
    /\ \E o \in HookOutcomes :
         IF o.kind = "raise"
         THEN Propagate(o.exc, log \o <<Rec("term", Self.on_termination[i], ""),
                                        Rec("raise", 0, "term")>>)
         ELSE /\ log' = log \o <<Rec("term", Self.on_termination[i], "")>>
              /\ i' = i + 1
              /\ UNCHANGED <<flows, engineVars, pc, did_entry_point, e, has_events,
                             procVars, raised>>

(* Flow._execute, line 55: raise e *)
ReraiseControl ==
    /\ pc = "term"
    /\ i > Len(Self.on_termination)
    /\ Propagate(e, log)

(* exception actions that stop at the first kind-set that matches *)
ExceptionAction_FirstMatchOnly ==
    /\ pc = "cleanup"
    /\ i <= Len(Self.on_exception)
    /\ IF IsInstance(e, Self.on_exception[i].types)
       THEN \E o \in HookOutcomes :
              IF o.kind = "raise"
              THEN Propagate(o.exc,
                             log \o <<Rec("cleanup", i, Self.on_exception[i].cleanup),
                                      Rec("raise", 0, "cleanup")>>)
              ELSE /\ log' = log \o <<Rec("cleanup", i, Self.on_exception[i].cleanup)>>
                   /\ i' = Len(Self.on_exception) + 1
                   /\ UNCHANGED <<flows, engineVars, pc, did_entry_point, e,
                                  has_events, procVars, raised>>
       ELSE /\ i' = i + 1
            /\ UNCHANGED <<flows, engineVars, pc, did_entry_point, e, has_events,
                           procVars, log, raised>>

(* Flow._execute, lines 57-59: the exception actions *)
ExceptionAction ==
    /\ pc = "cleanup"
    /\ i <= Len(Self.on_exception)
    /\ IF IsInstance(e, Self.on_exception[i].types)
       THEN \E o \in HookOutcomes :
              IF o.kind = "raise"
              THEN Propagate(o.exc,
                             log \o <<Rec("cleanup", i, Self.on_exception[i].cleanup),
                                      Rec("raise", 0, "cleanup")>>)
              ELSE /\ log' = log \o <<Rec("cleanup", i, Self.on_exception[i].cleanup)>>
                   /\ i' = i + 1
                   /\ UNCHANGED <<flows, engineVars, pc, did_entry_point, e,
                                  has_events, procVars, raised>>
       ELSE /\ i' = i + 1
            /\ UNCHANGED <<flows, engineVars, pc, did_entry_point, e, has_events,
                           procVars, log, raised>>

(* _execute that runs the termination actions for an error as well *)
ReraiseError_ThenTermination ==
    /\ pc = "cleanup"
    /\ i > Len(Self.on_exception)
    /\ pc' = "term"
    /\ i' = 1
    /\ UNCHANGED <<flows, engineVars, did_entry_point, e, has_events, procVars,
                   log, raised>>

(* Flow._execute, line 60: raise e *)
ReraiseError ==
    /\ pc = "cleanup"
    /\ i > Len(Self.on_exception)
    /\ Propagate(e, log)

(* execute() that catches every exception and returns None for it *)
ExecuteCatch_ReturnsNone ==
    /\ pc = "caught"
    /\ caught' = e
    /\ result' = "None"
    /\ e' = NoExc
    /\ pc' = "returned"
    /\ UNCHANGED <<flow, entry_point, args, kwargs, log, raised, flagged>>
    /\ UNCHANGED <<flows, did_entry_point, i, has_events, procVars>>

(* execute() that forgets to rebind args on a ChangeFlow *)
ExecuteCatch_KeepsArgs ==
    /\ pc = "caught"
    /\ caught' = e
    /\ IF e.type = "ChangeFlow"
       THEN /\ flow' = e.new_flow
            /\ entry_point' = e.entry_point
            /\ e' = NoExc
            /\ raised' = NoExc
            /\ flagged' = flows[e.new_flow].discard_events_flag
            /\ pc' = "call"
            /\ UNCHANGED <<result, log, args, kwargs>>
       ELSE IF e.type = "EndFlow"
       THEN /\ result' = e.return_value
            /\ e' = NoExc
            /\ pc' = "returned"
            /\ UNCHANGED <<flow, entry_point, args, kwargs, log, raised, flagged>>
       ELSE /\ pc' = "raised"
            /\ UNCHANGED <<flow, entry_point, args, kwargs, result, e, log, raised,
                           flagged>>
    /\ UNCHANGED <<flows, did_entry_point, i, has_events, procVars>>

(* execute, lines 317-323: the except clauses of the trampoline *)
ExecuteCatch ==
    /\ pc = "caught"
    /\ caught' = e
    /\ IF e.type = "ChangeFlow"
       THEN /\ flow' = e.new_flow
            /\ entry_point' = e.entry_point
            /\ args' = e.args
            /\ kwargs' = e.kwargs
            /\ e' = NoExc
            /\ raised' = NoExc
            /\ flagged' = flows[e.new_flow].discard_events_flag
            /\ pc' = "call"
            /\ UNCHANGED <<result, log>>
       ELSE IF e.type = "EndFlow"
       THEN /\ result' = e.return_value
            /\ e' = NoExc
            /\ pc' = "returned"
            /\ UNCHANGED <<flow, entry_point, args, kwargs, log, raised, flagged>>
       ELSE /\ pc' = "raised"
            /\ UNCHANGED <<flow, entry_point, args, kwargs, result, e, log, raised,
                           flagged>>
    /\ UNCHANGED <<flows, did_entry_point, i, has_events, procVars>>

(* ------------------- the registration operations ---------------------- *)
(* How many callables the flow objects hold. *)
Size(fs) ==
    LET n(F) == Cardinality(DOMAIN F.entry_points) + Len(F.event_sources)
                + Len(F.event_handlers) + Len(F.preactions) + Len(F.postactions)
                + Len(F.on_exception) + Len(F.on_termination)
    IN n(fs["A"]) + n(fs["B"])

ExcKeys == {<<"ValueError">>, <<"ValueError", "KeyError">>,
            <<"KeyError", "ValueError">>, <<"Exception">>}

(* A registration method of flow f is called while nothing runs: r is what *)
(* the method makes of the flow and what it raises.                        *)
RegCall(op, f, name, method) == [op |-> op, flow |-> f, name |-> name, method |-> method]
Registration(f, r, call) ==
    /\ pc = "idle"
    /\ flows' = [flows EXCEPT ![f] = r.flow]
    /\ Size(flows') <= MaxRegs
    /\ e' = r.raised
    /\ log' = <<call>>
    /\ UNCHANGED <<pc, engineVars, did_entry_point, i, has_events, procVars, raised>>

RegisterEntryPoint(f, name, method) ==
    Registration(f, register_entry_point(flows[f], name, method),
                 RegCall("register_entry_point", f, name, method))
RedefineEntryPoint(f, name, method) ==
    Registration(f, redefine_entry_point(flows[f], name, method),
                 RegCall("redefine_entry_point", f, name, method))
DeleteEntryPoint(f, name) ==
    Registration(f, delete_entry_point(flows[f], name),
                 RegCall("delete_entry_point", f, name, ""))
RegisterExceptionAction(f, key, action) ==
    Registration(f, register_exception_action(flows[f], key, action),
                 RegCall("register_exception_action", f, key, action))
RegisterTerminationAction(f) ==
    Registration(f, register_termination_action(flows[f]),
                 RegCall("register_termination_action", f, "", ""))
RegisterEventSource(f) ==
    Registration(f, register_event_source(flows[f]),
                 RegCall("register_event_source", f, "", ""))
RegisterEventHandler(f) ==
    Registration(f, register_event_handler(flows[f]),
                 RegCall("register_event_handler", f, "", ""))
RegisterPreeventAction(f) ==
    Registration(f, register_preevent_action(flows[f]),
                 RegCall("register_preevent_action", f, "", ""))
RegisterPosteventAction(f, must_have_event) ==
    Registration(f, register_postevent_action(flows[f], must_have_event),
                 RegCall("register_postevent_action", f, "", must_have_event))

InitReg ==
    /\ flows = [f \in FlowIds |-> EmptyFlow]
    /\ Idle

NextReg ==
    \/ \E f \in FlowIds, name \in Names, method \in Fns :
          RegisterEntryPoint(f, name, method)
    \/ \E f \in FlowIds, name \in Names, method \in Fns :
          RedefineEntryPoint(f, name, method)
    \/ \E f \in FlowIds, name \in Names : DeleteEntryPoint(f, name)
    \/ \E f \in FlowIds, key \in ExcKeys, action \in Cleanups :
          RegisterExceptionAction(f, key, action)
    \/ \E f \in FlowIds : RegisterTerminationAction(f)
    \/ \E f \in FlowIds : RegisterEventSource(f)
    \/ \E f \in FlowIds : RegisterEventHandler(f)
    \/ \E f \in FlowIds : RegisterPreeventAction(f)
    \/ \E f \in FlowIds, m \in BOOLEAN : RegisterPosteventAction(f, m)

SpecReg == InitReg /\ [][NextReg]_vars

Next ==
    \/ \E f \in FlowIds, ep \in Names, a \in ArgLists, k \in KwArgs : Execute(f, ep, a, k)
    \/ ExecuteBegin
    \/ EntryPoint
    \/ PreAction
    \/ ProcessEventsBegin
    \/ Poll
    \/ process_event
    \/ Dispatched
    \/ PollDone
    \/ DiscardCheck
    \/ SourceDiscard
    \/ DiscardDone
    \/ PostAction
    \/ SweepDone
    \/ run_termination_actions
    \/ ReraiseControl
    \/ ExceptionAction
    \/ ReraiseError
    \/ ExecuteCatch

Spec == Init /\ [][Next]_vars

(* ------------------------------ properties ----------------------------- *)
SweepOrigins == {"entry", "pre", "handle", "post"}

(* The exception in flight was raised by the sweep code of the flow that ran; *)
(* the log holds what ran since.                                              *)
RaisedBy(origins) ==
    /\ log # <<>>
    /\ log[1].op = "raise"
    /\ log[1].arg \in origins

(* No termination action or cleanup raised since. *)
NothingRaisedSince == \A k \in 2..Len(log) : log[k].op # "raise"

(* The calls of the log after its first entry. *)
Since == SubSeq(log, 2, Len(log))

(* The termination actions of the flow that raised, each once, in order. *)
AllTerminationActions ==
    LET q == flows[log[1].flow].on_termination
    IN [k \in 1..Len(q) |-> [Rec("term", q[k], "") EXCEPT !.flow = log[1].flow]]

(* C1: execute returns only from the state where an EndFlow has left the    *)
(* running flow, and it returns the value that EndFlow carries.             *)
C1_ReturnsEndFlowValue ==
    [][pc' = "returned" =>
         /\ pc = "caught"
         /\ e.type = "EndFlow"
         /\ result' = e.return_value]_vars

(* C1 happens: flow B's entry point raised EndFlow("done"), execute returned it. *)
C1_Witness ==
    /\ pc = "returned"
    /\ result = "done"
    /\ caught = EndFlow("done")
    /\ flow = "B"
    /\ RaisedBy({"entry"})

(* C2: from the raise of a ChangeFlow until execute has it, nothing of the  *)
(* flow runs but its termination actions; execute then rebinds flow, entry  *)
(* point and arguments to exactly what the signal carries and calls         *)
(* _execute of the target.                                                  *)
C2_ChangeFlowTransfers ==
    /\ [](raised.type = "ChangeFlow" =>
            /\ pc \in {"term", "caught", "returned", "raised"}
            /\ RaisedBy(SweepOrigins \cup {"poll", "source_discard"})
            /\ \A k \in 2..Len(log) : log[k].op \in {"term", "raise"})
    /\ [][(pc = "caught" /\ e.type = "ChangeFlow") =>
            /\ pc' = "call"
            /\ flow' = e.new_flow
            /\ entry_point' = e.entry_point
            /\ args' = e.args
            /\ kwargs' = e.kwargs
            /\ flows' = flows]_vars

(* C2 happens: A's entry point raised ChangeFlow(B, "start", ("x",)) and the *)
(* engine is about to run B with "start" and ("x",).                         *)
C2_Witness ==
    /\ pc = "call"
    /\ caught = ChangeFlow("B", "start", <<"x">>, "none")
    /\ flow = "B" /\ entry_point = "start" /\ args = <<"x">>
    /\ RaisedBy({"entry"})
    /\ log[1].flow = "A"

(* C3: when a ChangeFlow or EndFlow raised by the entry point, a pre-action, *)
(* a handler or a post-action leaves the flow, every termination action of   *)
(* the flow has run exactly once, in registration order, and nothing else    *)
(* ran since the raise; this is so when execute returns and when the target  *)
(* is about to run.                                                          *)
C3_TerminationActionsRunOnce ==
    (/\ pc \in {"caught", "call", "returned"}
     /\ RaisedBy(SweepOrigins)
     /\ NothingRaisedSince
     /\ (IF pc = "caught" THEN e.type ELSE caught.type) \in Control)
    => Since = AllTerminationActions

(* C3 happens: a handler raised EndFlow, both termination actions ran, and   *)
(* execute returned.                                                         *)
C3_Witness ==
    /\ pc = "returned"
    /\ RaisedBy({"handle"})
    /\ NothingRaisedSince
    /\ Len(Since) = MaxTerm

IsPrefix(a, b) == Len(a) <= Len(b) /\ SubSeq(b, 1, Len(a)) = a

(* The cleanups of the flow that raised whose kind-set holds exc, in the    *)
(* order of the table.                                                      *)
MatchingCleanups(exc) ==
    LET q == flows[log[1].flow].on_exception
        all == [k \in 1..Len(q) |->
                  [Rec("cleanup", k, q[k].cleanup) EXCEPT !.flow = log[1].flow]]
    IN SelectSeq(all, LAMBDA r : IsInstance(exc, q[r.idx].types))

(* An ordinary error raised by the entry point, a pre-action, a handler or a *)
(* post-action is on its way out.                                            *)
ErrorLeaving ==
    /\ pc \in {"caught", "raised"}
    /\ raised.type \in ErrTypes \cup {"NoEvent"}
    /\ RaisedBy(SweepOrigins)

C5_RegisterRejectsRedefineUpserts ==
    [][(log' # <<>> /\ log'[1].op \in {"register_entry_point", "redefine_entry_point"}) =>
         LET c == log'[1]
             old == flows[c.flow]
             new == flows'[c.flow]
             bound ==
               /\ e' = NoExc
               /\ DOMAIN new.entry_points = DOMAIN old.entry_points \cup {c.name}
               /\ new.entry_points[c.name] = c.method
               /\ \A n \in DOMAIN old.entry_points \ {c.name} :
                    new.entry_points[n] = old.entry_points[n]
               /\ new = [old EXCEPT !.entry_points = new.entry_points]
               /\ \A g \in FlowIds \ {c.flow} : flows'[g] = flows[g]
         IN IF c.op = "register_entry_point" /\ c.name \in DOMAIN old.entry_points
            THEN e' = ValueError /\ flows' = flows
            ELSE bound]_vars

(* C5 happens: a second registration of a name was refused and the name     *)
(* kept its callable.                                                       *)
C5_Witness ==
    /\ log # <<>>
    /\ log[1].op = "register_entry_point"
    /\ e = ValueError
    /\ flows[log[1].flow].entry_points[log[1].name] # log[1].method

(* The entry point asked for is not in the flow's non-empty registry. *)
Missing ==
    /\ DOMAIN Self.entry_points # {}
    /\ entry_point \notin DOMAIN Self.entry_points

(* C6: a run with an entry point missing from a non-empty registry raises   *)
(* MissingEntryPoint at once: the program is never inside the loop of       *)
(* _execute, no callable is called, and the error leaves execute.           *)
C6_MissingEntryPointBeforeAnything ==
    /\ []((Missing /\ pc \notin {"idle", "call"}) =>
            (pc \in {"caught", "raised"} /\ e = MissingEntryPoint))
    /\ [][(Missing /\ pc = "call") =>
            (pc' = "caught" /\ e' = MissingEntryPoint /\ log' = log /\ flows' = flows)]_vars
    /\ [][(pc = "caught" /\ e = MissingEntryPoint) =>
            (pc' = "raised" /\ e' = e /\ log' = log /\ flows' = flows)]_vars

(* C6 happens: a ChangeFlow sent the engine to an entry point flow A does   *)
(* not have, and MissingEntryPoint left execute.                            *)
C6_Witness ==
    /\ pc = "raised"
    /\ e = MissingEntryPoint
    /\ flow = "A" /\ entry_point = "start"
    /\ caught = e
    /\ RaisedBy(SweepOrigins)
    /\ NothingRaisedSince

SweepPositions == {"pre", "poll", "dispatch", "discard", "discarding", "post"}

(* C7: a flow without entry points runs whatever id it is given: no         *)
(* MissingEntryPoint, no entry-point call, and the first callable of every  *)
(* sweep, the first one included, is the first pre-action.                  *)
C7_NoEntryPointsStraightToSweep ==
    (DOMAIN Self.entry_points = {} /\ pc \notin {"idle", "call"}) =>
       /\ e # MissingEntryPoint
       /\ pc \in SweepPositions \cup {"try"} => did_entry_point
       /\ pc \in SweepPositions =>
            /\ \A k \in DOMAIN log : log[k].op # "entry"
            /\ (log # <<>> /\ Self.preactions # <<>>) => log[1] = Rec("pre", 1, "")

(* C7 happens: flow B, without entry points, run with "go", is polling its  *)
(* sources after its pre-actions.                                           *)
C7_Witness ==
    /\ flow = "B"
    /\ DOMAIN Self.entry_points = {}
    /\ entry_point = "go"
    /\ pc = "poll"
    /\ Len(log) = MaxPre
    /\ log[1] = Rec("pre", 1, "")

(* The handler calls made for the event being dispatched. *)
Handles == SelectSeq(log, IsHandle)

Ran(op, idx) == \E k \in DOMAIN log : log[k].op = op /\ log[k].idx = idx
Delivered == \E k \in DOMAIN log : log[k].op = "dispatched"
Handled == \E k \in DOMAIN log : log[k].op = "dispatched" /\ log[k].value
PreActionsRan ==
    LET off == IF log # <<>> /\ log[1].op = "entry" THEN 1 ELSE 0
    IN /\ Len(log) >= off + Len(Self.preactions)
       /\ \A k \in 1..Len(Self.preactions) : log[off + k] = Rec("pre", Self.preactions[k], "")

Polls == SelectSeq(log, LAMBDA r : r.op = "poll")
SourceDiscards == SelectSeq(log, LAMBDA r : r.op = "source_discard")

(* A sweep has come to its end and its log is complete. *)
SweepOver == pc = "try" /\ did_entry_point /\ log # <<>> /\ log[1].op # "raise"

(* The polling of the sweep is over, sources told to discard included. *)
PollingOver == pc = "post" \/ SweepOver

(* What discard_events() during the event of the source at position k of    *)
(* the log brings about, polled == which dispatches count.                  *)
DiscardEffect(k) ==
    LET p == log[k].idx
        n == Len(Self.event_sources)
    IN \* sources 1..p were polled, in order, once each, and no other
       /\ Polls = [j \in 1..p |-> Rec("poll", Self.event_sources[j],
                                      Polls[j].arg)]
       \* each delivered event was dispatched before the next poll
       /\ \A j \in DOMAIN log :
            (log[j].op = "poll" /\ log[j].arg = "event") =>
               /\ j < Len(log)
               /\ log[j + 1].op \in {"dispatched", "aborted"}
               /\ log[j + 1].idx = log[j].idx
       \* every source was told to discard once, in order, after the polling
       /\ SourceDiscards = [j \in 1..n |-> Rec("source_discard", Self.event_sources[j], "")]
       /\ SubSeq(log, k + 1, k + n) = SourceDiscards

EntryPointCalled ==
    /\ pc = "try" /\ pc' = "pre"
    /\ log' # <<>> /\ log'[1].op = "entry"

InRun == pc \in SweepPositions \cup {"try"}

(* C11: a run of a flow that has the entry point called begins with the     *)
(* call of that entry point, before anything else of the flow; the call is  *)
(* made once, and while the run lasts, through every sweep that follows,    *)
(* no entry point is called again; a run the engine starts after a          *)
(* ChangeFlow, to the same flow included, begins the same way.              *)
C11_EntryPointOncePerRun ==
    /\ [][(pc = "call" /\ entry_point \in DOMAIN Self.entry_points) =>
            (pc' = "try" /\ ~did_entry_point' /\ log' = log)]_vars
    /\ [][(pc = "try" /\ ~did_entry_point) =>
            \/ /\ EntryPointCalled
               /\ log' = <<Rec("entry", 0, Self.entry_points[entry_point])>>
               /\ did_entry_point'
            \/ /\ pc' \in {"term", "cleanup"}
               /\ log' = <<Rec("raise", 0, "entry")>>]_vars
    /\ [][(InRun /\ did_entry_point) =>
            /\ ~EntryPointCalled
            /\ \A k \in DOMAIN log' : log'[k].op # "entry" \/ (k = 1 /\ log # <<>> /\ log[1] = log'[1])
            /\ did_entry_point' \/ pc' \in {"term", "cleanup"}]_vars

(* C11 happens: flow A was entered by a ChangeFlow, its entry point was    *)
(* called in the first sweep, and a later sweep of the same run is at its  *)
(* pre-actions without another call.                                       *)
C11_Witness ==
    /\ pc = "pre"
    /\ flow = "A" /\ entry_point = "go"
    /\ caught = ChangeFlow("A", "go", <<>>, "none")
    /\ did_entry_point
    /\ log = <<>>

(* An error that is no control signal was raised in the run and no cleanup *)
(* or termination action raised since.                                     *)
ErrorInFlight ==
    /\ log # <<>> /\ log[1].op = "raise"
    /\ raised # NoExc /\ raised.type \notin Control
    /\ NothingRaisedSince

(* C12 as stated: of several kind-sets that match the error only the first *)
(* registered has its cleanup called, once, and the error leaves unchanged.*)
C12_OnlyFirstMatchingCleanup ==
    (pc \in {"caught", "raised"} /\ ErrorInFlight /\ Len(MatchingCleanups(raised)) > 1) =>
       /\ e = raised
       /\ Since = <<MatchingCleanups(raised)[1]>>

(* C12 amended: every kind-set of the table that matches the error has its *)
(* cleanup called with it, once, in table order: while the table is gone   *)
(* through the cleanups called so far are those of the matching kind-sets  *)
(* passed, the error in hand unchanged; and the error that leaves after    *)
(* the last of them returned is the error raised.                          *)
C12_EveryMatchingCleanup ==
    /\ pc = "cleanup" =>
         /\ e = raised
         /\ ErrorInFlight
         /\ i <= Len(Self.on_exception) + 1
         /\ Since = SelectSeq(MatchingCleanups(raised), LAMBDA r : r.idx < i)
    /\ (pc \in {"caught", "raised"} /\ ErrorInFlight) =>
         /\ e = raised
         /\ Since = MatchingCleanups(raised)

(* C12 happens: a post-action of flow A raised ValueError, which both      *)
(* kind-sets of A hold; c1 and c2 were called, in this order, and the      *)
(* ValueError left execute.                                                *)
C12_Witness ==
    /\ pc = "raised"
    /\ e = Error("ValueError") /\ raised = e
    /\ RaisedBy({"post"})
    /\ log[1].flow = "A"
    /\ Len(log) = 3
    /\ log[2].op = "cleanup" /\ log[2].arg = "c1"
    /\ log[3].op = "cleanup" /\ log[3].arg = "c2"

(* A ChangeFlow or EndFlow has left the flow and is in the hands of execute. *)
ControlReachesEngine == pc = "caught" /\ e.type \in Control

(* The last raise the log holds. *)
LastRaise == CHOOSE k \in DOMAIN log :
                log[k].op = "raise" /\ \A j \in DOMAIN log : j > k => log[j].op # "raise"

(* C13 as stated: whatever raised the signal that reaches the engine, all  *)
(* termination actions of the flow ran after that raise, in order.         *)
C13_AlwaysThroughTermination ==
    ControlReachesEngine =>
       SubSeq(log, LastRaise + 1, Len(log)) = AllTerminationActions

(* C13 amended: this is so for a signal raised by the entry point, a       *)
(* pre-action, a handler, a post-action or an event source.  A signal      *)
(* raised by a cleanup leaves at once, no termination action having run    *)
(* in the run; one raised by a termination action leaves at once, after    *)
(* the termination actions up to that one and none of the later ones.      *)
C13_ThroughTerminationUnlessRaisedInExcept ==
    ControlReachesEngine =>
       /\ log # <<>> /\ log[1].op = "raise"
       /\ IF NothingRaisedSince
          THEN /\ e = raised
               /\ RaisedBy(SweepOrigins \cup {"poll", "source_discard"})
               /\ Since = AllTerminationActions
          ELSE /\ LastRaise = Len(log)
               /\ \A k \in 2..(Len(log) - 1) : log[k].op # "raise"
               /\ IF log[LastRaise].arg = "cleanup"
                  THEN /\ raised.type \notin Control
                       /\ \A k \in DOMAIN log : log[k].op # "term"
                  ELSE /\ log[LastRaise].arg = "term"
                       /\ raised.type \in Control
                       /\ Len(log) > 2
                       /\ IsPrefix(SubSeq(log, 2, Len(log) - 1), AllTerminationActions)

(* C13 happens: an event source raised EndFlow when polled, both           *)
(* termination actions ran and the signal is in the hands of execute.      *)
C13_Witness ==
    /\ pc = "caught"
    /\ e \in EndFlows /\ e = raised
    /\ RaisedBy({"poll"})
    /\ NothingRaisedSince
    /\ Since = AllTerminationActions
    /\ Len(Since) = MaxTerm

NoCleanupCalled == \A k \in DOMAIN log : log[k].op # "cleanup"

(* C14: the exception the cleanups are called with is never a ChangeFlow   *)
(* or an EndFlow; a control signal raised in the run goes to the           *)
(* termination actions and leaves the flow without any cleanup called,     *)
(* also in a flow whose kind-set holds every exception.                    *)
C14_ControlNeverToCleanups ==
    /\ pc = "cleanup" => (e.type \notin Control /\ e = raised)
    /\ pc = "term" => (e.type \in Control /\ NoCleanupCalled)
    /\ (pc = "caught" /\ raised.type \in Control) => NoCleanupCalled

(* C14 happens: a pre-action of flow B, whose table matches every          *)
(* exception, raised ChangeFlow; the termination actions ran, no cleanup   *)
(* was called, and the signal is in the hands of execute.                  *)
C14_Witness ==
    /\ pc = "caught"
    /\ flow = "B"
    /\ IsInstance(e, Self.on_exception[1].types)
    /\ e \in ChangeFlows /\ e = raised
    /\ RaisedBy({"pre"})
    /\ Len(log) = 1 + MaxTerm
    /\ NoCleanupCalled

TerminationActionCalled == \E k \in DOMAIN log : log[k].op = "term"

Phase(r) ==
    CASE r.op = "entry" -> 0
      [] r.op = "pre" -> 1
      [] r.op \in {"poll", "handle", "dispatched", "aborted"} -> 2
      [] r.op = "source_discard" -> 3
      [] r.op = "post" -> 4
      [] OTHER -> 5

Pres == SelectSeq(log, LAMBDA r : r.op = "pre")
Posts == SelectSeq(log, LAMBDA r : r.op = "post")
InSweep == pc \in SweepPositions \/ SweepOver

(* The calls of a sweep are in the order of the phases, and those of a     *)
(* phase in registration order.                                            *)
PhasesInOrder ==
    /\ \A j, k \in DOMAIN log : j < k => Phase(log[j]) <= Phase(log[k])
    /\ \A k \in DOMAIN log : Phase(log[k]) < 5 /\ (Phase(log[k]) = 0 => k = 1)
    /\ \A k \in DOMAIN Pres : Pres[k].idx = Self.preactions[k]
    /\ \A k \in DOMAIN Polls : Polls[k].idx = Self.event_sources[k]
    /\ \A k \in DOMAIN SourceDiscards : SourceDiscards[k].idx = Self.event_sources[k]
    /\ \A j, k \in DOMAIN Posts : j < k => Posts[j].idx < Posts[k].idx
    /\ \A k \in DOMAIN Posts : \E m \in DOMAIN Self.postactions :
                                   Self.postactions[m].action = Posts[k].idx

(* A phase is complete before the next begins. *)
PhasesComplete ==
    /\ pc # "pre" => Len(Pres) = Len(Self.preactions)
    /\ pc = "pre" => (Len(Pres) = i - 1 /\ \A k \in DOMAIN log : Phase(log[k]) <= 1)
    /\ (pc = "post" \/ SweepOver) =>
          Len(SourceDiscards) \in {0, Len(Self.event_sources)}
    /\ pc \in {"discard", "discarding", "post"} \/ SweepOver =>
          (Len(Polls) < Len(Self.event_sources) =>
              \E k \in DOMAIN log : log[k].op = "dispatched"
                                       /\ log[k].idx = Self.event_sources[Len(Polls)])

(* The handlers of an event are called right after the poll that gave it,  *)
(* and are through before anything else of the sweep is called.            *)
HandlersBeforeNextPoll ==
    /\ (\E k \in DOMAIN log : log[k].op = "handle") => pc = "dispatch"
    /\ pc = "dispatch" =>
          /\ Len(Polls) = s
          /\ log[Len(log) - (h - 1)] = Rec("poll", Self.event_sources[s], "event")
          /\ \A k \in (Len(log) - (h - 1) + 1)..Len(log) : log[k].op = "handle"
    /\ \A k \in DOMAIN log :
          (log[k].op = "poll" /\ log[k].arg = "event" /\ pc # "dispatch") =>
             /\ k < Len(log)
             /\ log[k + 1].op \in {"dispatched", "aborted"}
             /\ log[k + 1].idx = log[k].idx

NoEventAt(k) == log[k].op = "poll" /\ log[k].arg = "NoEvent"

(* C17: after a poll that found no event no handler is called for that     *)
(* source: what is called next is the next source in registration order,   *)
(* or what follows the polling; when no source had an event the polling    *)
(* went through all of them and the sweep goes on to the post-actions, no  *)
(* event counted; and an exception that a poll makes leave the sweep is    *)
(* never NoEvent.                                                          *)
C17_NoEventSkipsSource ==
    /\ InSweep =>
         \A k \in DOMAIN log : NoEventAt(k) =>
            /\ k < Len(log) =>
                 /\ log[k + 1].op \in {"poll", "source_discard", "post"}
                 /\ log[k + 1].op = "poll" => log[k + 1].idx = log[k].idx + 1
                 /\ log[k + 1].op # "poll" => log[k].idx = Len(Self.event_sources)
            /\ k = Len(log) =>
                 /\ pc \in {"poll", "discard", "discarding", "post"} \/ SweepOver
                 /\ pc = "poll" => s = log[k].idx + 1
                 /\ pc # "poll" => log[k].idx = Len(Self.event_sources)
    /\ (pc = "post" /\ \A k \in DOMAIN Polls : Polls[k].arg = "NoEvent") =>
         /\ Len(Polls) = Len(Self.event_sources)
         /\ ~has_events
    /\ (log # <<>> /\ log[1].op = "raise" /\ log[1].arg = "poll") => raised # NoEvent
    /\ (pc \in {"caught", "raised"} /\ e = NoEvent) =>
         (log[Len(log)].op = "raise" /\ log[Len(log)].arg \notin {"poll", "handle"})
         \/ (raised = NoEvent /\ log[1].arg \notin {"poll", "handle"})

(* C17 happens: both sources were polled and had no event; the sweep is at *)
(* its post-actions, no handler was called and no source told to discard.  *)
C17_Witness ==
    /\ pc = "post" /\ i = 1
    /\ Len(Polls) = MaxSources
    /\ \A k \in DOMAIN Polls : Polls[k].arg = "NoEvent"
    /\ ~has_events
    /\ \A k \in DOMAIN log : log[k].op \in {"entry", "pre", "poll"}

(* The kinds a key of the table names, as a set. *)
KindSet(types) == Range(types)

(* C18 as stated: no table ever holds two cleanups for one set of kinds.   *)
C18_OneCleanupPerKindSet ==
    \A f \in FlowIds :
       \A j, k \in DOMAIN flows[f].on_exception :
          j # k => KindSet(flows[f].on_exception[j].types)
                     # KindSet(flows[f].on_exception[k].types)

(* C18 amended: the table holds at most one cleanup per key as written:    *)
(* register_exception_action for a key the table has puts the new cleanup  *)
(* in the place of the old one, for a new key it adds an item at the end;  *)
(* every other item stays; of the cleanups called for an error the key     *)
(* matches exactly one is the key's, and it is the one just registered.    *)
C18_OneCleanupPerKey ==
    /\ [](\A f \in FlowIds :
            \A j, k \in DOMAIN flows[f].on_exception :
               j # k => flows[f].on_exception[j].types # flows[f].on_exception[k].types)
    /\ [][(log' # <<>> /\ log'[1].op = "register_exception_action") =>
            LET c == log'[1]
                old == flows[c.flow].on_exception
                new == flows'[c.flow].on_exception
                p == KeyPos(old, c.name)
                item == [types |-> c.name, cleanup |-> c.method]
            IN /\ e' = NoExc
               /\ IF p = 0
                  THEN new = Append(old, item)
                  ELSE /\ Len(new) = Len(old)
                       /\ new[p] = item
                       /\ \A k \in DOMAIN old : k # p => new[k] = old[k]
               /\ flows'[c.flow] = [flows[c.flow] EXCEPT !.on_exception = new]
               /\ \A exc \in Errors :
                     IsInstance(exc, c.name) =>
                        SelectSeq(CleanupsFor(flows'[c.flow], exc),
                                  LAMBDA it : it.types = c.name) = <<item>>]_vars

(* C18 happens: the last registration was for the key of the first of two  *)
(* items of the table, so it replaced the cleanup of that item in place,   *)
(* and the other item holds the same kinds written in the other order.     *)
C18_Witness ==
    /\ log # <<>>
    /\ log[1].op = "register_exception_action"
    /\ LET q == flows[log[1].flow].on_exception
       IN /\ Len(q) = 2
          /\ q[1] = [types |-> log[1].name, cleanup |-> log[1].method]
          /\ q[1].types = <<"ValueError", "KeyError">>
          /\ q[2].types = <<"KeyError", "ValueError">>

(* No handler called discard_events() in this sweep. *)
NoHandlerDiscard ==
    \A k \in DOMAIN log :
       log[k].op \in {"handle", "dispatched", "aborted"} => ~log[k].discard

(* The flag is set and it was not set during the polling of this sweep: it *)
(* was set by the entry point, a pre-action, a post-action of the sweep    *)
(* before, or before the run.                                              *)
OutsideDiscard ==
    /\ pc \in {"poll", "dispatch", "discard"}
    /\ Self.discard_events_flag
    /\ NoHandlerDiscard

Completed == {k \in DOMAIN log : log[k].op = "dispatched"}
Yielded == {k \in DOMAIN log : log[k].op = "poll" /\ log[k].arg = "event"}

(* What the flag does at the end of the polling. *)
FlagConsumed ==
    [][(pc = "discard" /\ Self.discard_events_flag) =>
         (pc' = "discarding" /\ ~flows'[flow].discard_events_flag /\ i' = 1 /\ log' = log)]_vars
AllSourcesDiscarded ==
    (pc = "post" /\ SourceDiscards # <<>>) =>
       /\ SourceDiscards = [k \in 1..Len(Self.event_sources) |->
                             Rec("source_discard", Self.event_sources[k], "")]
       /\ \A j, k \in DOMAIN log :
             (log[j].op = "poll" /\ log[k].op = "source_discard") => j < k
       /\ i = 1 => ~Self.discard_events_flag

FlagClearedOnlyAfterPolling ==
    [][\A f \in FlowIds :
         (flows[f].discard_events_flag /\ ~flows'[f].discard_events_flag) =>
            (f = flow /\ pc = "discard" /\ pc' = "discarding")]_vars

HandlerRaisedNoEvent ==
    /\ pc = "dispatch"
    /\ log' # <<>>
    /\ log'[Len(log')].op = "aborted"
    /\ Len(SelectSeq(log', LAMBDA r : r.op = "aborted"))
         > Len(SelectSeq(log, LAMBDA r : r.op = "aborted"))

=============================================================================
